---------------------------- MODULE Spec2Model ----------------------------
(***************************************************************************)
(* Dual-write listings service: a relational store (system of record) and  *)
(* a search index, written one after the other by the request handlers of  *)
(* backend/routers/properties.py.                                          *)
(*                                                                         *)
(* Values.  A Python value that may be None is a tuple: None is <<>> and   *)
(* a value v is <<v>>.  Strings are strings, numbers are integers (the     *)
(* Float columns carry no arithmetic), lists are sequences.                *)
(*                                                                         *)
(* Fields.  The request models and the tables have some thirty fields      *)
(* that fall into a few classes; one field stands for each class:          *)
(*   locality        Optional[str] = None, String column                   *)
(*   title, description   the same, searched by the keyword parameters     *)
(*   property_type, listing_type   optional enum, Enum column              *)
(*   amenities       Optional[List] = [], ARRAY column (overlooking,       *)
(*                   additional_rooms)                                     *)
(*   lift_available  Optional[bool] = None, Boolean column                 *)
(*   price, bhk / price_min, price_max, bhk_min, bhk_max   numbers         *)
(*   customer_id     request field with no column (both kinds)             *)
(*   bathrooms       request field with no column in demand_requests       *)
(*   images          column with no request field                          *)
(***************************************************************************)
EXTENDS Integers, Sequences, FiniteSets, TLC

VARIABLES
    rel,     \* rel[index name]: the set of rows of that kind's table
    idx,     \* idx[index name]: the set of documents [_id, _source]
    req,     \* req[s]: the request being handled in slot s
    nreq,    \* number of requests received so far
    hist,    \* what the deletes so far did to each id (see Created)
    fn       \* the last query built outside a write request (see NoCall)

vars == <<rel, idx, req, nreq, hist, fn>>

\* ------------------------------------------------------------------ bounds

\* Requests received in one behaviour.
MaxReqs == 3

\* Largest price and largest bhk of a listing handed to the cross-match
\* query builder, largest number passed as a search parameter, and the
\* number of parameters one search call passes.
MaxPrice == 3
MaxBhk == 2
MaxArg == 2
MaxParams == 2
MaxDocs == 11
MaxRows == 3
MaxBatch == 3
MaxRace == 2

\* ---------------------------------------------------------------- constants

INDEX_SUPPLY == "supply_properties"
INDEX_DEMAND == "demand_requests"
Indexes == {INDEX_SUPPLY, INDEX_DEMAND}

\* "size": 10 of the cross-match query.
CrossSize == 10

\* size: int = 10 of the search endpoints (the default; callers of the model
\* do not pass it).
SearchSize == 10

None == <<>>
Some(v) == <<v>>

\* Python truthiness of an optional string / an optional number.
TruthyStr(v) == v # None /\ v[1] # ""
TruthyNum(v) == v # None /\ v[1] # 0

\* The falsy value of a field's type: "" for strings, [] for lists, False
\* for booleans, 0 for numbers.
FalsyValue(f) ==
    CASE f = "lift_available" -> Some(FALSE)
      [] f = "amenities"      -> Some(<<>>)
      [] f \in {"property_id", "customer_id", "locality", "property_type",
                "listing_type", "title", "description"} -> Some("")
      [] OTHER                -> Some(0)

\* ------------------------------------------------------------------ schema

\* models/property.py: BaseListing, SupplyProperty, DemandRequest
BaseListing == {"property_id", "customer_id", "title", "description",
                "locality", "property_type", "listing_type", "amenities",
                "lift_available"}
SupplyProperty == BaseListing \cup {"price", "bhk"}
DemandRequest == BaseListing \cup
                 {"price_min", "price_max", "bhk_min", "bhk_max", "bathrooms"}

\* The request model of a kind.
RequestModel(index) ==
    IF index = INDEX_SUPPLY THEN SupplyProperty ELSE DemandRequest

\* Field defaults of the request models: [] for the list fields, else None.
FieldDefault(f) == IF f = "amenities" THEN Some(<<>>) ELSE None

\* models/sql_property.py: the mapped columns of the two tables.
SQLSupplyProperty == {"id", "title", "description", "locality", "price",
                      "bhk", "property_type",
                      "listing_type", "lift_available", "amenities", "images"}
SQLDemandRequest == {"id", "title", "description", "locality",
                     "property_type", "listing_type",
                     "price_min", "price_max", "bhk_min", "bhk_max",
                     "lift_available", "amenities", "images"}

SQLModel(index) ==
    IF index = INDEX_SUPPLY THEN SQLSupplyProperty ELSE SQLDemandRequest

\* ----------------------------------------------------------- pure helpers

\* A function restricted to a subset of its domain.
Restrict(f, S) == [x \in S |-> f[x]]

\* Pydantic parsing of a JSON body: supplied fields keep their value (an
\* explicit null is None), the others take the field default.
ParseBody(index, body) ==
    [f \in RequestModel(index) |->
        IF f \in DOMAIN body THEN body[f] ELSE FieldDefault(f)]

\* model.dict(exclude_none=True): every field whose value is not None,
\* whether it was supplied or defaulted.
DictExcludeFalsy(m) ==
    Restrict(m, {f \in DOMAIN m : m[f] # None /\ m[f] # FalsyValue(f)})

DictExcludeNone(m) == Restrict(m, {f \in DOMAIN m : m[f] # None})

\* The row the table holds for a model instance built from keyword
\* arguments: unset columns are NULL.
RowOf(index, data) ==
    [c \in SQLModel(index) |-> IF c \in DOMAIN data THEN data[c] ELSE None]

\* to_dict of a loaded SQL model: the id is renamed to property_id
\* (supply) or request_id (demand).
ToDictKey(index) == IF index = INDEX_SUPPLY THEN "property_id" ELSE "request_id"

ToDictKeepsId(index, row) ==
    [k \in DOMAIN row \cup {ToDictKey(index)} |->
        IF k = ToDictKey(index) THEN row["id"] ELSE row[k]]

to_dict(index, row) ==
    [k \in (DOMAIN row \ {"id"}) \cup {ToDictKey(index)} |->
        IF k = ToDictKey(index) THEN row["id"] ELSE row[k]]

\* prepare_and_index: the document body is to_dict without property_id and
\* request_id.
IndexDoc(index, row) ==
    LET d == to_dict(index, row)
    IN  Restrict(d, DOMAIN d \ {"property_id", "request_id"})


\* ------------------------------------------------------------ search index

\* One clause of a bool query: a fuzzy match, an exact term, or a one-sided
\* range (op is "gte" or "lte").
Match(f, q) == [t |-> "match", f |-> f, op |-> "fuzzy", v |-> q]
Term(f, x) == [t |-> "term", f |-> f, op |-> "eq", v |-> x]
Range(f, o, x) == [t |-> "range", f |-> f, op |-> o, v |-> x]

\* The clauses of the search endpoints: a match with a boost and no
\* fuzziness, and a range whose body is the dict the handler filled (v maps
\* "gte" and "lte", whichever were set, to their bounds).
Boosted(f, q, b) ==
    [t |-> "match", f |-> f, op |-> "plain", v |-> q, boost |-> b]
RangeDict(f, d) == [t |-> "range", f |-> f, op |-> "dict", v |-> d]

\* Appends clause c to the list when the condition holds.
AppendIf(cond, list, c) == IF cond THEN Append(list, c) ELSE list

\* create_cross_search_query: the query run against target_index for a
\* freshly written source model (the parsed request, not the row).
CrossMust(m) ==
    AppendIf(TruthyStr(m["locality"]), <<>>,
             Match("locality", m["locality"][1]))

CrossCoreTypeOnly(m) ==
    AppendIf(TruthyStr(m["property_type"]), <<>>,
             Term("property_type", m["property_type"][1]))

CrossCore(m) ==
    LET f1 == AppendIf(TruthyStr(m["property_type"]), <<>>,
                       Term("property_type", m["property_type"][1]))
    IN  AppendIf(TruthyStr(m["listing_type"]), f1,
                 Term("listing_type", m["listing_type"][1]))

\* Case A: a supply (point values) against demands (ranges).
CrossSupplyToDemand(m, f0) ==
    LET f1 == AppendIf(TruthyNum(m["price"]), f0,
                       Range("price_min", "lte", m["price"][1]))
        f2 == AppendIf(TruthyNum(m["price"]), f1,
                       Range("price_max", "gte", m["price"][1]))
        f3 == AppendIf(TruthyNum(m["bhk"]), f2,
                       Range("bhk_min", "lte", m["bhk"][1]))
    IN  AppendIf(TruthyNum(m["bhk"]), f3,
                 Range("bhk_max", "gte", m["bhk"][1]))

\* Case B: a demand (ranges) against supplies (point values).
CrossDemandToSupplySwapped(m, f0) ==
    LET f1 == AppendIf(TruthyNum(m["price_min"]), f0,
                       Range("price", "lte", m["price_min"][1]))
        f2 == AppendIf(TruthyNum(m["price_max"]), f1,
                       Range("price", "gte", m["price_max"][1]))
        f3 == AppendIf(TruthyNum(m["bhk_min"]), f2,
                       Range("bhk", "lte", m["bhk_min"][1]))
    IN  AppendIf(TruthyNum(m["bhk_max"]), f3,
                 Range("bhk", "gte", m["bhk_max"][1]))

CrossDemandToSupply(m, f0) ==
    LET f1 == AppendIf(TruthyNum(m["price_min"]), f0,
                       Range("price", "gte", m["price_min"][1]))
        f2 == AppendIf(TruthyNum(m["price_max"]), f1,
                       Range("price", "lte", m["price_max"][1]))
        f3 == AppendIf(TruthyNum(m["bhk_min"]), f2,
                       Range("bhk", "gte", m["bhk_min"][1]))
    IN  AppendIf(TruthyNum(m["bhk_max"]), f3,
                 Range("bhk", "lte", m["bhk_max"][1]))

create_cross_search_query(target_index, m) ==
    [must   |-> CrossMust(m),
     should |-> <<>>,
     filter |-> IF target_index = INDEX_DEMAND
                THEN CrossSupplyToDemand(m, CrossCore(m))
                ELSE CrossDemandToSupply(m, CrossCore(m)),
     size   |-> CrossSize]

\* The search endpoints' parameters, by type.  A parameter that is not
\* passed is None.
SupplyStrParams == {"locality", "keywords", "title_keywords", "listing_type",
                    "property_type", "facing_direction", "furnishing_status",
                    "customer_name"}
SupplyIntParams == {"bhk", "min_sqft", "max_sqft", "min_price", "max_price"}
DemandStrParams == {"locality", "keywords", "title_keywords", "property_type",
                    "furnishing_status", "customer_name", "listing_type",
                    "facing_direction"}
DemandIntParams == {"bhk_min", "bhk_max", "min_sqft", "max_sqft",
                    "min_price", "max_price"}
BoolParams == {"has_lift"}

\* if min or max: range = {}; if min: range["gte"] = min;
\* if max: range["lte"] = max; filter.append({"range": {field: range}})
RangeBody(lo, hi) ==
    [k \in (IF TruthyNum(lo) THEN {"gte"} ELSE {}) \cup
           (IF TruthyNum(hi) THEN {"lte"} ELSE {}) |->
        IF k = "gte" THEN lo[1] ELSE hi[1]]

AppendRange(list, f, lo, hi) ==
    AppendIf(TruthyNum(lo) \/ TruthyNum(hi), list,
             RangeDict(f, RangeBody(lo, hi)))

\* The full-text part, the same in both search endpoints.
SearchMust(p) ==
    AppendIf(TruthyStr(p["locality"]), <<>>,
             Match("locality", p["locality"][1]))

SearchShould(p) ==
    LET s1 == AppendIf(TruthyStr(p["keywords"]), <<>>,
                       Boosted("description", p["keywords"][1], 2))
    IN  AppendIf(TruthyStr(p["title_keywords"]), s1,
                 Boosted("title", p["title_keywords"][1], 3))

\* A term filter on field f for a string parameter n.
AppendTerm(list, p, n, f) ==
    AppendIf(TruthyStr(p[n]), list, Term(f, p[n][1]))

\* search_supply_properties as served (the first handler registered for
\* GET /search/supply/): the body handed to client.search.
search_supply_properties(p) ==
    LET f1 == AppendTerm(<<>>, p, "property_type", "property_type")
        f2 == AppendTerm(f1, p, "furnishing_status", "furnishing_status")
        f3 == AppendIf(TruthyNum(p["bhk"]), f2, Term("bhk", p["bhk"][1]))
        f4 == AppendIf(p["has_lift"] # None, f3,
                       Term("lift_available", p["has_lift"][1]))
        f5 == AppendTerm(f4, p, "listing_type", "listing_type")
        f6 == AppendTerm(f5, p, "facing_direction", "facing_direction")
        f7 == AppendTerm(f6, p, "customer_name", "customer_name")
        f8 == AppendRange(f7, "area_sqft", p["min_sqft"], p["max_sqft"])
    IN  [must   |-> SearchMust(p),
         should |-> SearchShould(p),
         filter |-> AppendRange(f8, "price", p["min_price"], p["max_price"]),
         size   |-> SearchSize]

\* search_demand_requests: the ranges filter on the demand's min fields.
search_demand_requests(p) ==
    LET f1 == AppendTerm(<<>>, p, "property_type", "property_type")
        f2 == AppendTerm(f1, p, "furnishing_status", "furnishing_status")
        f3 == AppendIf(p["has_lift"] # None, f2,
                       Term("lift_available", p["has_lift"][1]))
        f4 == AppendTerm(f3, p, "listing_type", "listing_type")
        f5 == AppendTerm(f4, p, "facing_direction", "facing_direction")
        f6 == AppendTerm(f5, p, "customer_name", "customer_name")
        f7 == AppendRange(f6, "bhk_min", p["bhk_min"], p["bhk_max"])
        f8 == AppendRange(f7, "area_sqft_min", p["min_sqft"], p["max_sqft"])
    IN  [must   |-> SearchMust(p),
         should |-> SearchShould(p),
         filter |-> AppendRange(f8, "price_min", p["min_price"],
                                p["max_price"]),
         size   |-> SearchSize]

\* The locality analyzer with fuzziness AUTO, on the localities of the
\* model: a one-letter misspelling of a long word still matches.
Misspelt == {{"koramangala", "koramangla"}}
Fuzzy(q, text) == q = text \/ {q, text} \in Misspelt

\* The value a document holds for a field (None when missing or null).
DocValue(doc, f) == IF f \in DOMAIN doc THEN doc[f] ELSE None

\* Whether a document satisfies one clause.  A missing or null field
\* satisfies no clause.
Satisfies(doc, c) ==
    LET x == DocValue(doc, c.f)
    IN  /\ x # None
        /\ CASE c.op = "fuzzy" -> Fuzzy(c.v, x[1])
             [] c.op = "plain" -> x[1] = c.v
             [] c.t = "term"   -> x[1] = c.v
             [] c.op = "gte"   -> x[1] >= c.v
             [] c.op = "lte"   -> x[1] <= c.v
             [] OTHER          ->
                    /\ "gte" \in DOMAIN c.v => x[1] >= c.v["gte"]
                    /\ "lte" \in DOMAIN c.v => x[1] <= c.v["lte"]

AllOf(doc, list) == \A i \in 1..Len(list) : Satisfies(doc, list[i])
AnyOf(doc, list) == \E i \in 1..Len(list) : Satisfies(doc, list[i])

\* A bool query: every must and every filter clause is required; a should
\* clause is required only when there is neither a must nor a filter
\* clause (minimum_should_match is then 1).
DocMatches(doc, q) ==
    /\ AllOf(doc, q.must)
    /\ AllOf(doc, q.filter)
    /\ (Len(q.must) = 0 /\ Len(q.filter) = 0 /\ Len(q.should) > 0)
          => AnyOf(doc, q.should)

\* client.search: the possible hit lists (as sets of document ids) of a
\* query: all matching documents when they fit in size, else any size of
\* them (the relevance order is the engine's).
SearchHitsAll(index, q) ==
    {{d._id : d \in {e \in idx[index] : DocMatches(e._source, q)}}}

SearchHits(index, q) ==
    LET all == {d._id : d \in {e \in idx[index] : DocMatches(e._source, q)}}
    IN  IF Cardinality(all) <= q.size THEN {all}
        ELSE {h \in SUBSET all : Cardinality(h) = q.size}


\* ------------------------------------------------------------------ inputs

NoFields == [f \in {} |-> None]

\* Ids a caller may put in a body or a path, and the ids uuid4 may return
\* (a pool of one: a behaviour holds one generated id at a time).
CallerIds == {"a"}
UuidPool == {"u1"}
PathIds == CallerIds \cup UuidPool

\* Request bodies (JSON objects; a field mapped to None is an explicit
\* null).  Each supplies no field, one field with a falsy, a null or an
\* ordinary value, or the fields of a listing that the cross-match pairs
\* up: a supply and a demand of the same locality and types with the
\* supply's price and bhk inside the demand's ranges, and a demand with a
\* misspelt locality and a lower bound of 0.
SupplyListing ==
    ("locality" :> Some("koramangala")) @@ ("property_type" :> Some("Flat")) @@
    ("listing_type" :> Some("RENT")) @@ ("price" :> Some(2)) @@
    ("bhk" :> Some(2))
DemandListing ==
    ("locality" :> Some("koramangala")) @@ ("property_type" :> Some("Flat")) @@
    ("listing_type" :> Some("RENT")) @@
    ("price_min" :> Some(1)) @@ ("price_max" :> Some(3)) @@
    ("bhk_min" :> Some(2)) @@ ("bhk_max" :> Some(3))
DemandMisspelt ==
    ("locality" :> Some("koramangla")) @@ ("price_min" :> Some(0))

SupplyBodies ==
    {NoFields, SupplyListing,
     "locality" :> None, "locality" :> Some(""),
     "amenities" :> Some(<<>>), "amenities" :> Some(<<"gym">>),
     "lift_available" :> Some(FALSE), "lift_available" :> Some(TRUE),
     "price" :> Some(0),
     "customer_id" :> Some("c1")}

DemandBodies ==
    {NoFields, DemandListing,
     "amenities" :> Some(<<"gym">>), DemandMisspelt,
     "bathrooms" :> Some(2)}

BodyCores(index) ==
    IF index = INDEX_SUPPLY THEN SupplyBodies ELSE DemandBodies

\* The property_id a create body may carry: none, an empty string, a
\* caller id.
BodyIds == {None, Some("")} \cup {Some(i) : i \in CallerIds}

Bodies(index) ==
    {IF pid = None THEN core ELSE core @@ ("property_id" :> pid) :
        core \in BodyCores(index), pid \in BodyIds}

\* Update bodies: the same, and one that carries a property_id.
UpdateBodies(index) ==
    BodyCores(index) \cup {"property_id" :> Some(i) : i \in UuidPool}

\* Listings handed to create_cross_search_query: parsed request models
\* whose locality, types, price and bhk fields are absent or hold a value
\* (0 and "" included).
Opt(S) == {None} \cup {Some(x) : x \in S}
ModelLocalities == Opt({"", "koramangala"})
ModelPropertyTypes == Opt({"Flat"})
ModelListingTypes == Opt({"RENT"})

SupplyModels ==
    {ParseBody(INDEX_SUPPLY,
               [locality |-> l, property_type |-> t, listing_type |-> lt,
                price |-> pr, bhk |-> b]) :
        l \in ModelLocalities, t \in ModelPropertyTypes,
        lt \in ModelListingTypes,
        pr \in Opt(0..MaxPrice), b \in Opt(0..MaxBhk)}

DemandModels ==
    {ParseBody(INDEX_DEMAND,
               [locality |-> l, property_type |-> t, listing_type |-> lt,
                price_min |-> lo, price_max |-> hi,
                bhk_min |-> blo, bhk_max |-> bhi]) :
        l \in ModelLocalities, t \in ModelPropertyTypes,
        lt \in ModelListingTypes,
        lo \in Opt(0..MaxPrice), hi \in Opt(0..MaxPrice),
        blo \in Opt(0..MaxBhk), bhi \in Opt(0..MaxBhk)}

SourceModels(index) ==
    IF index = INDEX_SUPPLY THEN SupplyModels ELSE DemandModels

\* Listings with text, as the search endpoints find them in the index:
\* the description and the title hold the keyword, another word or nothing.
TextValues == Opt({"garden", "pool"})
TextModels(index) ==
    {ParseBody(index, [locality |-> l, title |-> t, description |-> d]) :
        l \in Opt({"koramangala"}), t \in TextValues, d \in TextValues}

\* Query strings of a search call: each parameter is left out, passed
\* empty or 0, or passed with a value; at most MaxParams are passed.
StrArg(n) ==
    CASE n = "locality"          -> "koramangala"
      [] n = "property_type"     -> "Flat"
      [] n = "listing_type"      -> "RENT"
      [] n = "furnishing_status" -> "FURNISHED"
      [] n = "facing_direction"  -> "East"
      [] OTHER                   -> "garden"

Args(strs, ints) ==
    LET names == strs \cup ints \cup BoolParams
    IN  UNION {
          {[n \in names |->
              IF n \notin S THEN None
              ELSE IF n \in strs THEN Some(IF n \in E THEN "" ELSE StrArg(n))
              ELSE IF n \in ints THEN Some(fi[n])
              ELSE Some(n \in T)] :
            E \in SUBSET (S \cap strs),
            fi \in [S \cap ints -> 0..MaxArg],
            T \in SUBSET (S \cap BoolParams)} :
          S \in {X \in SUBSET names : Cardinality(X) <= MaxParams}}

\* fn when no query was built: call names the function, target the index
\* searched, source its argument (a request model or the parameters),
\* other the demand of a pair, query the result; hits and back are the
\* hits of a pair's two cross-match queries.
NoCall ==
    [call |-> "none", target |-> "", source |-> NoFields, other |-> NoFields,
     query |-> [must |-> <<>>, should |-> <<>>, filter |-> <<>>, size |-> 0],
     hits |-> {}, back |-> {}]

\* ---------------------------------------------------------------- requests

Slots == {1, 2}

\* A request slot.  op, index, id and body are the request; pc is the
\* handler's position; orig is the row as fetched, model the SQL model
\* instance's attributes; log lists the commits, index writes, index
\* deletes and searches issued so far (a refresh is a read); status
\* and error are the response (error names the call that raised);
\* opensearch_id and matches are the success response; had records whether
\* a row with the id existed when the request arrived; os_status is the
\* HTTP status of the index delete call and opensearch_response its result
\* as returned to the caller; db is the session get_db made for the
\* request.
\*
\* get_db: db = SessionLocal(); try: yield db; finally: db.close().
\* A session is open or closed and counts its close calls.
NoSession == [state |-> "none", closes |-> 0]
SessionLocal == [state |-> "open", closes |-> 0]
close(db) == [state |-> "closed", closes |-> db.closes + 1]

\* How the handler leaves: it returns, raises HTTPException, or lets
\* another exception through.
Outcome(status, error) ==
    IF status = 200 THEN "return"
    ELSE IF error = "TypeError" THEN "exception" ELSE "http_exception"

CloseOnReturnOnly(db, outcome) ==
    IF outcome = "return" THEN close(db) ELSE db

\* What get_db does to its session once the handler has left.
get_db(db, outcome) == close(db)
Idle ==
    [op |-> "idle", pc |-> "idle", index |-> INDEX_SUPPLY, id |-> "",
     body |-> NoFields, orig |-> NoFields, model |-> NoFields,
     log |-> <<>>, status |-> 0, error |-> "", opensearch_id |-> "",
     matches |-> {}, had |-> FALSE, os_status |-> 0,
     opensearch_response |-> "", db |-> NoSession]

\* A request as the handler receives it: get_db has yielded its session.
Received == [Idle EXCEPT !.db = SessionLocal]

Free(s) == req[s].pc \in {"idle", "done"}

HasRow(index, i) == \E r \in rel[index] : r["id"] = i
RowById(index, i) == CHOOSE r \in rel[index] : r["id"] = i
HasDoc(index, i) == \E d \in idx[index] : d._id = i
DocById(index, i) == CHOOSE d \in idx[index] : d._id = i

Opposite(index) == IF index = INDEX_SUPPLY THEN INDEX_DEMAND ELSE INDEX_SUPPLY

\* The ids in use anywhere: uuid4 returns none of them.
UsedIds ==
    UNION {{r["id"] : r \in rel[k]} \cup {d._id : d \in idx[k]} : k \in Indexes}
    \cup {req[s].id : s \in Slots}

uuid4 == UuidPool \ UsedIds

\* The handlers' statement order inside the try block: the position after
\* a call returned.
\*   add:    db.commit, db.refresh, prepare_and_index, client.search
\*   update: db.commit, db.refresh, prepare_and_index
\*   delete: db.commit, client.delete
AfterStepReordered(op, pc) ==
    CASE op = "add" /\ pc = "commit"     -> "refresh"
      [] op = "add" /\ pc = "refresh"    -> "search"
      [] op = "add" /\ pc = "search"     -> "index"
      [] op = "update" /\ pc = "commit"  -> "refresh"
      [] op = "update" /\ pc = "refresh" -> "index"
      [] op = "delete" /\ pc = "commit"  -> "os_delete"
      [] OTHER                           -> "done"

AfterStep(op, pc) ==
    CASE op = "add" /\ pc = "commit"     -> "refresh"
      [] op = "add" /\ pc = "refresh"    -> "index"
      [] op = "add" /\ pc = "index"      -> "search"
      [] op = "update" /\ pc = "commit"  -> "refresh"
      [] op = "update" /\ pc = "refresh" -> "index"
      [] op = "delete" /\ pc = "commit"  -> "os_delete"
      [] OTHER                           -> "done"

\* The request ends with an HTTP status (and, on 500, the failed call).
Finish(r, status, error) ==
    [r EXCEPT !.pc = "done", !.status = status, !.error = error,
              !.db = get_db(r.db, Outcome(status, error))]

\* The call at r.pc returned: on to the next statement, or the success
\* response after the last one.
Advance(r) ==
    IF AfterStep(r.op, r.pc) = "done" THEN Finish(r, 200, "")
    ELSE [r EXCEPT !.pc = AfterStep(r.op, r.pc)]

Issue(r, call) == [r EXCEPT !.log = Append(r.log, call)]

Init ==
    /\ rel = [k \in Indexes |-> {}]
    /\ idx = [k \in Indexes |-> {}]
    /\ req = [s \in Slots |-> Idle]
    /\ nreq = 0
    /\ hist = [gone |-> {}, stale |-> {}]
    /\ fn = NoCall

\* ------------------------------------------------------------ store calls

\* id = Column(String, primary_key=True): an INSERT is accepted only when
\* no row of the table has the id.
CanInsertAlways(table, i) == TRUE

CanInsert(table, i) == \A row \in table : row["id"] # i

\* INSERT of a row (the primary key is checked by the caller's guard).
InsertRow(table, row) == table \cup {row}

\* UPDATE ... SET <changed columns> WHERE id = i.
UpdateRow(table, i, changes) ==
    {IF r["id"] = i
     THEN [c \in DOMAIN r |-> IF c \in DOMAIN changes THEN changes[c] ELSE r[c]]
     ELSE r : r \in table}

\* DELETE ... WHERE id = i.
DeleteRow(table, i) == {r \in table : r["id"] # i}

\* client.index(index, id, body): the document stored under id is replaced
\* by body as a whole (created when absent).
IndexPutUpdateOnly(docs, i, body) ==
    IF \E d \in docs : d._id = i
    THEN {d \in docs : d._id # i} \cup {[_id |-> i, _source |-> body]}
    ELSE docs

IndexPutAlone(docs, i, body) == {[_id |-> i, _source |-> body]}

IndexPutKeepsExisting(docs, i, body) ==
    IF \E d \in docs : d._id = i THEN docs
    ELSE docs \cup {[_id |-> i, _source |-> body]}

IndexPut(docs, i, body) ==
    {d \in docs : d._id # i} \cup {[_id |-> i, _source |-> body]}

\* client.delete(index, id, ignore=[404]): the HTTP status and the result
\* field of the index's answer, the statuses that do not raise, and the
\* documents left.
DeleteStatus(docs, i) == IF \E d \in docs : d._id = i THEN 200 ELSE 404
DeleteResult(docs, i) ==
    IF \E d \in docs : d._id = i THEN "deleted" ELSE "not_found"

IgnoreNothing == {}

RollbackDeletesPending(table, r) ==
    IF r.op = "delete" THEN {row \in table : row["id"] # r.id} ELSE table

Ignored == {404}

DeleteRaises(docs, i) ==
    DeleteStatus(docs, i) >= 400 /\ DeleteStatus(docs, i) \notin Ignored

IndexRemoveKeeps(docs, i) == docs

IndexRemove(docs, i) == {d \in docs : d._id # i}

\* The record of deletes (a history of the run, not a field of the
\* program): hist.gone holds the <<kind, id>> whose last delete returned
\* success with no row of that id inserted since, hist.stale those whose
\* last delete committed and then failed at the index, likewise.
Created(index, i) ==
    [gone |-> hist.gone \ {<<index, i>>}, stale |-> hist.stale \ {<<index, i>>}]
Deleted(index, i) ==
    [gone |-> hist.gone \cup {<<index, i>>},
     stale |-> hist.stale \ {<<index, i>>}]
IndexDeleteFailed(index, i) ==
    [gone |-> hist.gone, stale |-> hist.stale \cup {<<index, i>>}]

\* db.rollback() in the except clause: it discards what the session has
\* not committed.  After db.commit() returned there is nothing left to
\* discard, and a commit that raised wrote nothing, so the table is what
\* it was when the exception was raised.
RollbackDeletesRow(table, r) ==
    IF r.op = "add" THEN DeleteRow(table, r.id) ELSE table

RollbackRestoresRow(table, r) ==
    IF r.op = "update" THEN UpdateRow(table, r.id, r.orig) ELSE table

rollback(table, r) == table

\* except Exception: db.rollback(); raise HTTPException(500).
OnException(s, r, call) ==
    /\ rel' = [rel EXCEPT ![r.index] = rollback(rel[r.index], r)]
    /\ req' = [req EXCEPT ![s] = Finish(r, 500, call)]

\* db.query(Model).filter(Model.id == id).first(): whether a row was
\* found, and its attributes.
FoundInIndex(index, i) == HasDoc(index, i)

FoundWithoutCheck(index, i) == TRUE

Found(index, i) == HasRow(index, i)

FetchFromIndex(index, i) ==
    IF HasDoc(index, i) THEN DocById(index, i)._source @@ ("id" :> i)
    ELSE ("id" :> i)

Fetch(index, i) == IF HasRow(index, i) THEN RowById(index, i) ELSE NoFields

\* ------------------------------------------------- POST /supply, /demand

\* new_id: the body's property_id when it is truthy, else a fresh uuid.
NewIdsIsNotNone(m) ==
    IF m["property_id"] # None THEN {m["property_id"][1]} ELSE uuid4

NewIds(m) ==
    IF TruthyStr(m["property_id"]) THEN {m["property_id"][1]} ELSE uuid4

\* sql_data: dict(exclude_none=True) with "id" set and property_id popped.
SqlData(m, new_id) ==
    LET d == DictExcludeNone(m)
    IN  [k \in (DOMAIN d \ {"property_id"}) \cup {"id"} |->
            IF k = "id" THEN new_id ELSE d[k]]

\* The request arrives: id, sql_data and the SQL model instance are built.
\* A keyword that is no mapped column makes the constructor raise, outside
\* the try block, before any store is touched.
AddBegin(s, index) ==
    /\ Free(s)
    /\ nreq < MaxReqs
    /\ \E body \in Bodies(index) :
         \E new_id \in NewIds(ParseBody(index, body)) :
            LET data == SqlData(ParseBody(index, body), new_id)
                r == [Received EXCEPT !.op = "add", !.index = index,
                                  !.id = new_id, !.body = body,
                                  !.had = HasRow(index, new_id)]
            IN  req' = [req EXCEPT ![s] =
                    IF DOMAIN data \subseteq SQLModel(index)
                    THEN [r EXCEPT !.pc = "commit", !.model = data]
                    ELSE Finish(r, 500, "TypeError")]
    /\ nreq' = nreq + 1
    /\ UNCHANGED <<rel, idx, hist, fn>>

\* db.add(sql_model); db.commit(): a duplicate primary key, or the
\* database being unreachable, raises.
AddCommit(s) ==
    LET r == Issue(req[s], "db_commit")
    IN  /\ req[s].op = "add" /\ req[s].pc = "commit"
        /\ \/ /\ CanInsert(rel[r.index], r.id)
              /\ rel' = [rel EXCEPT ![r.index] =
                            InsertRow(@, RowOf(r.index, r.model))]
              /\ req' = [req EXCEPT ![s] = Advance(r)]
              /\ hist' = Created(r.index, r.id)
           \/ OnException(s, r, "db_commit") /\ UNCHANGED hist
        /\ UNCHANGED <<idx, nreq, fn>>

\* db.refresh(sql_model): every column is read back from the table.
Refresh(s) ==
    LET r == req[s]
    IN  /\ r.pc = "refresh"
        /\ \/ /\ HasRow(r.index, r.id)
              /\ req' = [req EXCEPT ![s] =
                    Advance([r EXCEPT !.model = RowById(r.index, r.id)])]
              /\ UNCHANGED rel
           \/ OnException(s, r, "db_refresh")
        /\ UNCHANGED <<idx, nreq, hist, fn>>

\* prepare_and_index(sql_model, index_name, 'id'): the index after the
\* call, which returns the document id.
prepare_and_index(docs, model, index) ==
    IndexPut(docs, model["id"], IndexDoc(index, model))

Index(s) ==
    LET r == Issue(req[s], "os_index")
    IN  /\ req[s].pc = "index"
        /\ \/ /\ idx' = [idx EXCEPT ![r.index] =
                            prepare_and_index(@, r.model, r.index)]
              /\ req' = [req EXCEPT ![s] =
                    Advance([r EXCEPT !.opensearch_id = r.model["id"]])]
              /\ UNCHANGED rel
           \/ /\ OnException(s, r, "os_index")
              /\ UNCHANGED idx
        /\ UNCHANGED <<nreq, hist, fn>>

\* create_cross_search_query + client.search on the opposite index; the
\* hits go into the response.
CrossSearch(s) ==
    LET r == Issue(req[s], "os_search")
        q == create_cross_search_query(Opposite(r.index),
                                       ParseBody(r.index, r.body))
    IN  /\ req[s].op = "add" /\ req[s].pc = "search"
        /\ \/ /\ \E hits \in SearchHits(Opposite(r.index), q) :
                    req' = [req EXCEPT ![s] =
                                Advance([r EXCEPT !.matches = hits])]
              /\ UNCHANGED rel
           \/ OnException(s, r, "os_search")
        /\ UNCHANGED <<idx, nreq, hist, fn>>

\* --------------------------------------------------- PUT /supply, /demand

\* update_data = dict(exclude_none=True) of the parsed body.
UpdateData(index, body) == DictExcludeNone(ParseBody(index, body))

\* for key, value in update_data.items():
\*     if hasattr(sql_model, key) and key not in ('id', 'property_id'):
\*         setattr(sql_model, key, value)
SetAttrsAndId(model, update_data) ==
    [c \in DOMAIN model |->
        IF c = "id" /\ "property_id" \in DOMAIN update_data
        THEN update_data["property_id"][1]
        ELSE IF c \in DOMAIN update_data THEN update_data[c] ELSE model[c]]

SetAttrs(model, update_data) ==
    [c \in DOMAIN model |->
        IF c \in DOMAIN update_data /\ c \notin {"id", "property_id"}
        THEN update_data[c] ELSE model[c]]

\* The columns the flush writes: those whose value differs from the loaded
\* one.
Changes(orig, new) == Restrict(new, {c \in DOMAIN new : new[c] # orig[c]})

\* The row is fetched; 404 when the table has none with that id.
UpdateBegin(s, index) ==
    /\ Free(s)
    /\ nreq < MaxReqs
    /\ \E i \in PathIds, body \in UpdateBodies(index) :
         LET r == [Received EXCEPT !.op = "update", !.index = index, !.id = i,
                               !.body = body, !.had = HasRow(index, i)]
         IN  req' = [req EXCEPT ![s] =
                 IF Found(index, i)
                 THEN [r EXCEPT !.pc = "commit",
                                !.orig = Fetch(index, i),
                                !.model = Fetch(index, i)]
                 ELSE Finish(r, 404, "")]
    /\ nreq' = nreq + 1
    /\ UNCHANGED <<rel, idx, hist, fn>>

\* The setattr loop and db.commit().  An UPDATE that finds no row (deleted
\* meanwhile) raises.
UpdateCommit(s) ==
    LET r == Issue(req[s], "db_commit")
        new == SetAttrs(r.orig, UpdateData(r.index, r.body))
        changes == Changes(r.orig, new)
    IN  /\ req[s].op = "update" /\ req[s].pc = "commit"
        /\ \/ /\ DOMAIN changes # {} => HasRow(r.index, r.id)
              /\ rel' = [rel EXCEPT ![r.index] = UpdateRow(@, r.id, changes)]
              /\ req' = [req EXCEPT ![s] = Advance([r EXCEPT !.model = new])]
           \/ OnException(s, r, "db_commit")
        /\ UNCHANGED <<idx, nreq, hist, fn>>

\* ------------------------------------------------ DELETE /supply, /demand

DeleteBegin(s, index) ==
    /\ Free(s)
    /\ nreq < MaxReqs
    /\ \E i \in PathIds :
         LET r == [Received EXCEPT !.op = "delete", !.index = index, !.id = i,
                               !.had = HasRow(index, i)]
         IN  req' = [req EXCEPT ![s] =
                 IF Found(index, i)
                 THEN [r EXCEPT !.pc = "commit",
                                !.orig = Fetch(index, i),
                                !.model = Fetch(index, i)]
                 ELSE Finish(r, 404, "")]
    /\ nreq' = nreq + 1
    /\ UNCHANGED <<rel, idx, hist, fn>>

\* db.delete(sql_model); db.commit()
DeleteCommit(s) ==
    LET r == Issue(req[s], "db_commit")
    IN  /\ req[s].op = "delete" /\ req[s].pc = "commit"
        /\ \/ /\ rel' = [rel EXCEPT ![r.index] = DeleteRow(@, r.id)]
              /\ req' = [req EXCEPT ![s] = Advance(r)]
           \/ OnException(s, r, "db_commit")
        /\ UNCHANGED <<idx, nreq, hist, fn>>

\* response = client.delete(index, id, ignore=[404]) and the success
\* response, which carries response.get('result').  The call raises when
\* the index answers with an error status that is not ignored, or when the
\* index cannot be reached (503).
IndexDelete(s) ==
    LET r == Issue(req[s], "os_delete")
        docs == idx[r.index]
    IN  /\ req[s].op = "delete" /\ req[s].pc = "os_delete"
        /\ \/ /\ ~DeleteRaises(docs, r.id)
              /\ idx' = [idx EXCEPT ![r.index] = IndexRemove(@, r.id)]
              /\ req' = [req EXCEPT ![s] =
                    Advance([r EXCEPT
                        !.os_status = DeleteStatus(docs, r.id),
                        !.opensearch_response = DeleteResult(docs, r.id)])]
              /\ hist' = Deleted(r.index, r.id)
              /\ UNCHANGED rel
           \/ /\ \E st \in {503} \cup {DeleteStatus(docs, r.id)} :
                    /\ st = 503 \/ DeleteRaises(docs, r.id)
                    /\ OnException(s, [r EXCEPT !.os_status = st], "os_delete")
              /\ hist' = IndexDeleteFailed(r.index, r.id)
              /\ UNCHANGED idx
        /\ UNCHANGED <<nreq, fn>>

\* ------------------------------------------------------------ error bodies

\* The text before ": {e}" in the detail of the HTTPException(500) that the
\* except block of each handler raises.
ErrorPrefix(op, index) ==
    CASE op = "add" /\ index = INDEX_SUPPLY -> "Error saving/indexing property"
      [] op = "add" /\ index = INDEX_DEMAND ->
             "Error saving/indexing demand request"
      [] op = "update" -> "Database or Indexing error during update"
      [] OTHER -> "Database or Indexing error during deletion"

\* The detail of the HTTPException(404) raised when the row is missing.
NotFoundDetail(op, index) ==
    CASE op = "update" /\ index = INDEX_SUPPLY ->
             "Supply Property not found in DB"
      [] op = "update" /\ index = INDEX_DEMAND ->
             "Demand Request not found in DB"
      [] index = INDEX_SUPPLY -> "Supply Property not found"
      [] OTHER -> "Demand Request not found"

\* {e}: the text of the exception caught, which comes from the library whose
\* call raised.
ExceptionText(call) ==
    IF call \in {"db_commit", "db_refresh"} THEN "SQLAlchemyError"
    ELSE "OpenSearchException"

\* The body of the response to a request that ended in an HTTPException:
\* FastAPI serialises it as {"detail": ...}.
ErrorBody(r) ==
    IF r.status = 404
    THEN [detail |-> <<NotFoundDetail(r.op, r.index)>>]
    ELSE [detail |-> <<ErrorPrefix(r.op, r.index), ExceptionText(r.error)>>]

\* --------------------------------------------- GET /supply/{id}, /demand/{id}

\* The row is fetched; 404 when the table has none with that id; else the
\* request model built from to_dict of the row is returned (in model).  No
\* store is written and the index is not read.
\* SupplyProperty(**d) / DemandRequest(**d): the keywords that are fields
\* of the model are validated (the id string becomes the value of an
\* optional field), the others are ignored, missing fields take their
\* default.
FromDict(index, d) ==
    ParseBody(index,
              [k \in DOMAIN d |->
                  IF k \in {"property_id", "request_id"} THEN Some(d[k])
                  ELSE d[k]])

GetById(s, index) ==
    /\ Free(s)
    /\ nreq < MaxReqs
    /\ \E i \in PathIds :
         LET r == [Received EXCEPT !.op = "get", !.index = index, !.id = i,
                                   !.had = HasRow(index, i)]
         IN  req' = [req EXCEPT ![s] =
                 IF Found(index, i)
                 THEN Finish([r EXCEPT !.model =
                                 FromDict(index, to_dict(index, Fetch(index, i)))],
                             200, "")
                 ELSE Finish(r, 404, "")]
    /\ nreq' = nreq + 1
    /\ UNCHANGED <<rel, idx, hist, fn>>

\* ------------------------- GET /supply/, /demand/, /search/supply|demand/

\* The listing and search endpoints take no session and make one call,
\* client.search, outside any try block: its hits are the response, and an
\* exception of the client escapes the handler.
MatchAll(size) == [must |-> <<>>, should |-> <<>>, filter |-> <<>>,
                   size |-> size]

ListSizes == {1, SearchSize}

\* The parameter sets the search endpoints are called with here: none, a
\* locality, a lower price bound.
SearchArgs(index) ==
    LET strs == IF index = INDEX_SUPPLY THEN SupplyStrParams
                                        ELSE DemandStrParams
        ints == IF index = INDEX_SUPPLY THEN SupplyIntParams
                                        ELSE DemandIntParams
        none == [n \in strs \cup ints \cup BoolParams |-> None]
    IN  {none,
         [none EXCEPT !["locality"] = Some("koramangala")],
         [none EXCEPT !["min_price"] = Some(MaxPrice - 1)]}

\* The query of a search endpoint for parameters p.
SearchQuery(index, p) ==
    IF index = INDEX_SUPPLY THEN search_supply_properties(p)
    ELSE search_demand_requests(p)

\* client.search(index, body): the hits, or an exception; no store changes.
ClientSearch(s, op, index, q) ==
    LET r == [Idle EXCEPT !.op = op, !.index = index, !.pc = "done",
                          !.log = <<"os_search">>]
    IN  /\ Free(s)
        /\ nreq < MaxReqs
        /\ \/ \E hits \in SearchHits(index, q) :
                 req' = [req EXCEPT ![s] =
                            [r EXCEPT !.status = 200, !.matches = hits]]
           \/ req' = [req EXCEPT ![s] =
                         [r EXCEPT !.status = 500, !.error = "os_search"]]
        /\ nreq' = nreq + 1
        /\ UNCHANGED <<rel, idx, hist, fn>>

GetAll(s, index) ==
    \E size \in ListSizes : ClientSearch(s, "get_all", index, MatchAll(size))

Search(s, index) ==
    \E p \in SearchArgs(index) :
        ClientSearch(s, "search", index, SearchQuery(index, p))

\* ---------------------------------------------------------------- handlers

Add(s, index) ==
    \/ AddBegin(s, index)
    \/ /\ req[s].op = "add" /\ req[s].index = index
       /\ (AddCommit(s) \/ Refresh(s) \/ Index(s) \/ CrossSearch(s))

Update(s, index) ==
    \/ UpdateBegin(s, index)
    \/ /\ req[s].op = "update" /\ req[s].index = index
       /\ (UpdateCommit(s) \/ Refresh(s) \/ Index(s))

Delete(s, index) ==
    \/ DeleteBegin(s, index)
    \/ /\ req[s].op = "delete" /\ req[s].index = index
       /\ (DeleteCommit(s) \/ IndexDelete(s))

add_supply(s) == Add(s, INDEX_SUPPLY)
add_demand(s) == Add(s, INDEX_DEMAND)
update_supply(s) == Update(s, INDEX_SUPPLY)
update_demand(s) == Update(s, INDEX_DEMAND)
delete_supply(s) == Delete(s, INDEX_SUPPLY)
delete_demand(s) == Delete(s, INDEX_DEMAND)
get_supply_property(s) == GetById(s, INDEX_SUPPLY)
get_demand_request(s) == GetById(s, INDEX_DEMAND)
get_all_supply(s) == GetAll(s, INDEX_SUPPLY)
get_all_demand(s) == GetAll(s, INDEX_DEMAND)
search_supply(s) == Search(s, INDEX_SUPPLY)
search_demand(s) == Search(s, INDEX_DEMAND)

Handle(s) ==
    \/ add_supply(s)
    \/ add_demand(s)
    \/ update_supply(s)
    \/ update_demand(s)
    \/ delete_supply(s)
    \/ delete_demand(s)
    \/ get_supply_property(s)
    \/ get_demand_request(s)
    \/ get_all_supply(s)
    \/ get_all_demand(s)
    \/ search_supply(s)
    \/ search_demand(s)

\* Requests handled one at a time.
Next == Handle(1)

Spec == Init /\ [][Next]_vars

\* ------------------------------------------------------ concurrent updates

\* The handlers take no lock and the server runs them on a thread pool: two
\* PUT requests are served at once, their statements interleaved in any
\* order.  The stores hold one listing of each kind, created earlier under
\* the id "a".
StoredListing(index) ==
    RowOf(index, SqlData(ParseBody(index,
              IF index = INDEX_SUPPLY THEN SupplyListing ELSE DemandListing),
          "a"))

ConcInit ==
    /\ rel = [k \in Indexes |-> {StoredListing(k)}]
    /\ idx = [k \in Indexes |->
                 {[_id |-> "a", _source |-> IndexDoc(k, StoredListing(k))]}]
    /\ req = [s \in Slots |-> Idle]
    /\ nreq = 0
    /\ hist = [gone |-> {}, stale |-> {}]
    /\ fn = NoCall

ConcNext == \E s \in Slots : update_supply(s) \/ update_demand(s)

ConcSpec == ConcInit /\ [][ConcNext]_vars

\* MaxRace POST requests, served at once over stores that start empty.
CreateNext ==
    /\ \E s \in Slots : add_supply(s) \/ add_demand(s)
    /\ nreq' <= MaxRace

CreateSpec == Init /\ [][CreateNext]_vars

\* PUT and DELETE requests served at once over the stored listings.
ChangeNext ==
    \E s \in Slots :
        \/ update_supply(s)
        \/ update_demand(s)
        \/ delete_supply(s)
        \/ delete_demand(s)

ChangeSpec == ConcInit /\ [][ChangeNext]_vars

\* ----------------------------------------------------------- query builders

\* One call of create_cross_search_query on a listing.
CrossQuery(target_index) ==
    /\ fn.call = "none"
    /\ \E m \in SourceModels(Opposite(target_index)) :
          fn' = [NoCall EXCEPT
                    !.call = "create_cross_search_query",
                    !.target = target_index, !.source = m,
                    !.query = create_cross_search_query(target_index, m)]
    /\ UNCHANGED <<rel, idx, req, nreq, hist>>

\* One GET /search/supply/ and one GET /search/demand/, up to the body
\* handed to client.search.
SearchSupply ==
    /\ fn.call = "none"
    /\ \E p \in Args(SupplyStrParams, SupplyIntParams) :
          fn' = [NoCall EXCEPT
                    !.call = "search_supply_properties",
                    !.target = INDEX_SUPPLY, !.source = p,
                    !.query = search_supply_properties(p)]
    /\ UNCHANGED <<rel, idx, req, nreq, hist>>

SearchDemand ==
    /\ fn.call = "none"
    /\ \E p \in Args(DemandStrParams, DemandIntParams) :
          fn' = [NoCall EXCEPT
                    !.call = "search_demand_requests",
                    !.target = INDEX_DEMAND, !.source = p,
                    !.query = search_demand_requests(p)]
    /\ UNCHANGED <<rel, idx, req, nreq, hist>>

\* Two listings agree on locality, property type and listing type.
Agree(S, D) ==
    \A f \in {"locality", "property_type", "listing_type"} : S[f] = D[f]

\* A supply and a demand that agree, each stored as its create stores it:
\* the row of sql_data, and the document prepare_and_index derives from it.
StoredRow(index, m, i) == RowOf(index, SqlData(m, i))

IndexPair ==
    /\ fn.call = "none"
    /\ \E S \in SupplyModels, D \in DemandModels :
          /\ Agree(S, D)
          /\ rel' = [rel EXCEPT
                    ![INDEX_SUPPLY] = InsertRow(@, StoredRow(INDEX_SUPPLY, S, "s")),
                    ![INDEX_DEMAND] = InsertRow(@, StoredRow(INDEX_DEMAND, D, "d"))]
          /\ idx' = [idx EXCEPT
                    ![INDEX_SUPPLY] = prepare_and_index(
                        @, StoredRow(INDEX_SUPPLY, S, "s"), INDEX_SUPPLY),
                    ![INDEX_DEMAND] = prepare_and_index(
                        @, StoredRow(INDEX_DEMAND, D, "d"), INDEX_DEMAND)]
          /\ fn' = [NoCall EXCEPT !.call = "indexed", !.source = S,
                                  !.other = D]
    /\ UNCHANGED <<req, nreq, hist>>

\* The cross-match searches of the pair: the supply's query on the demand
\* index (hits) and the demand's query on the supply index (back).
CrossMatch ==
    /\ fn.call = "indexed"
    /\ \E hits \in SearchHits(INDEX_DEMAND,
                    create_cross_search_query(INDEX_DEMAND, fn.source)),
          back \in SearchHits(INDEX_SUPPLY,
                    create_cross_search_query(INDEX_SUPPLY, fn.other)) :
          fn' = [fn EXCEPT !.call = "cross_match", !.hits = hits,
                           !.back = back]
    /\ UNCHANGED <<rel, idx, req, nreq, hist>>

\* The parameters p with keywords and title_keywords left out.
WithoutKeywords(p) ==
    [n \in DOMAIN p |->
        IF n \in {"keywords", "title_keywords"} THEN None ELSE p[n]]

\* One listing stored by a create, and one search call evaluated on its
\* document twice: with the parameters as passed (hits) and with the
\* keyword parameters left out (back).
KeywordSearch(index) ==
    /\ fn.call = "none"
    /\ \E m \in TextModels(index) :
       \E p \in Args(IF index = INDEX_SUPPLY THEN SupplyStrParams
                                              ELSE DemandStrParams,
                     IF index = INDEX_SUPPLY THEN SupplyIntParams
                                              ELSE DemandIntParams) :
          LET doc == IndexDoc(index, StoredRow(index, m, "s"))
              found(q) == IF DocMatches(doc, q) THEN {"s"} ELSE {}
          IN  fn' = [NoCall EXCEPT
                        !.call = "keyword_search", !.target = index,
                        !.source = p, !.other = m,
                        !.query = SearchQuery(index, p),
                        !.hits = found(SearchQuery(index, p)),
                        !.back = found(SearchQuery(index, WithoutKeywords(p)))]
    /\ UNCHANGED <<rel, idx, req, nreq, hist>>

\* A create of one kind served while the opposite index holds n listings
\* that agree with it (more than the size of the cross-match query when
\* n > 10) and the index of its own kind holds one: the stores before the
\* create, then its cross-match search on the opposite index.
DocNames == <<"d01", "d02", "d03", "d04", "d05", "d06", "d07", "d08",
              "d09", "d10", "d11", "d12", "d13">>

ListingOf(index) ==
    ParseBody(index, IF index = INDEX_SUPPLY THEN SupplyListing
                                             ELSE DemandListing)

ManyRows(index, n) ==
    {StoredRow(index, ListingOf(index), DocNames[j]) : j \in 1..n}

ManyDocs(index, n) ==
    {[_id |-> row["id"], _source |-> IndexDoc(index, row)] :
        row \in ManyRows(index, n)}

IndexMany(kind) ==
    /\ fn.call = "none"
    /\ \E n \in 0..MaxDocs :
       \E m \in {ListingOf(kind), ParseBody(kind, NoFields)} :
          /\ rel' = [rel EXCEPT
                        ![Opposite(kind)] = ManyRows(Opposite(kind), n),
                        ![kind] = {StoredRow(kind, ListingOf(kind), "k")}]
          /\ idx' = [idx EXCEPT
                        ![Opposite(kind)] = ManyDocs(Opposite(kind), n),
                        ![kind] = prepare_and_index(
                            @, StoredRow(kind, ListingOf(kind), "k"), kind)]
          /\ fn' = [NoCall EXCEPT !.call = "indexed_many",
                                  !.target = Opposite(kind), !.source = m]
    /\ UNCHANGED <<req, nreq, hist>>

CrossMatchMany ==
    /\ fn.call = "indexed_many"
    /\ \E hits \in SearchHits(fn.target,
                    create_cross_search_query(fn.target, fn.source)) :
          fn' = [fn EXCEPT !.call = "matches", !.hits = hits]
    /\ UNCHANGED <<rel, idx, req, nreq, hist>>

\* One demand stored by a create and one GET /search/demand/ with range
\* parameters only, evaluated on its document.
RangeDemands ==
    {ParseBody(INDEX_DEMAND,
               [price_min |-> lo, price_max |-> hi,
                bhk_min |-> blo, bhk_max |-> bhi]) :
        lo \in Opt(0..MaxPrice), hi \in Opt({0, MaxPrice}),
        blo \in Opt(0..MaxBhk), bhi \in Opt({MaxBhk})}

RangeArgs ==
    LET none == [n \in DemandStrParams \cup DemandIntParams \cup BoolParams
                    |-> None]
    IN  {[none EXCEPT !["min_price"] = a, !["max_price"] = b,
                      !["bhk_min"] = c, !["bhk_max"] = d,
                      !["min_sqft"] = g] :
            a \in Opt(0..MaxArg), b \in Opt(0..MaxArg),
            c \in Opt({0, 1}), d \in Opt({0, MaxBhk}), g \in Opt({1})}

DemandRangeSearch ==
    /\ fn.call = "none"
    /\ \E m \in RangeDemands, p \in RangeArgs :
          LET doc == IndexDoc(INDEX_DEMAND, StoredRow(INDEX_DEMAND, m, "s"))
          IN  fn' = [NoCall EXCEPT
                        !.call = "range_search", !.target = INDEX_DEMAND,
                        !.source = p, !.other = m,
                        !.query = search_demand_requests(p),
                        !.hits = IF DocMatches(doc, search_demand_requests(p))
                                 THEN {"s"} ELSE {}]
    /\ UNCHANGED <<rel, idx, req, nreq, hist>>

QueryNext ==
    \/ CrossQuery(INDEX_SUPPLY)
    \/ CrossQuery(INDEX_DEMAND)
    \/ SearchSupply
    \/ SearchDemand
    \/ IndexPair
    \/ CrossMatch
    \/ KeywordSearch(INDEX_SUPPLY)
    \/ KeywordSearch(INDEX_DEMAND)
    \/ DemandRangeSearch
    \/ IndexMany(INDEX_SUPPLY)
    \/ IndexMany(INDEX_DEMAND)
    \/ CrossMatchMany

QuerySpec == Init /\ [][QueryNext]_vars

\* ------------------------------------- core/db_to_opensearch_recovery.py

\* clean_document: keys starting with '_' and None values are left out;
\* every other key is kept with its value (to_dict has no '_' key left;
\* the id under property_id or request_id is a string, never None).
clean_document(doc) ==
    Restrict(doc, {k \in DOMAIN doc :
                      k \in {"property_id", "request_id"} \/ doc[k] # None})

\* doc.get(id_field) or doc.get('property_id') or doc.get('request_id')
\* or doc.get('id'), with id_field left at its default 'property_id';
\* None when all are missing or falsy.
BulkDocId(doc) ==
    LET get(k) == IF k \in DOMAIN doc /\ doc[k] # "" THEN Some(doc[k])
                  ELSE None
    IN  IF get("property_id") # None THEN get("property_id")
        ELSE IF get("request_id") # None THEN get("request_id")
        ELSE get("id")

BulkAction(index, row) ==
    [_id |-> BulkDocId(to_dict(index, row))[1],
     _source |-> clean_document(to_dict(index, row))]

\* One action per record that has an id.
generate_bulk_actions(records, index) ==
    {BulkAction(index, row) :
        row \in {r \in records : BulkDocId(to_dict(index, r)) # None}}

\* bulk(client, actions): each action written replaces the document under
\* its id.
BulkWrite(docs, actions) ==
    {d \in docs : \A a \in actions : a._id # d._id} \cup actions

\* ReindexStats() and the locals of reindex_table; the run is held in fn.
ReindexStats ==
    [total_records |-> 0, indexed_records |-> 0, failed_records |-> 0]

Run(index, batch_size, dry_run, recreate_index) ==
    [call |-> "reindex_table", pc |-> "recreate", target |-> index,
     batch_size |-> batch_size, dry_run |-> dry_run,
     recreate_index |-> recreate_index, stats |-> ReindexStats,
     total_count |-> 0, offset |-> 0, batch_num |-> 0]

\* The table holds up to MaxRows listings and the index is in sync with it,
\* as the request path left it.
ReindexInit ==
    \E index \in Indexes, n \in 0..MaxRows, b \in 1..MaxBatch,
       dry_run \in BOOLEAN, recreate_index \in BOOLEAN :
        /\ rel = [k \in Indexes |->
                     IF k = index THEN ManyRows(k, n) ELSE {}]
        /\ idx = [k \in Indexes |->
                     IF k = index THEN ManyDocs(k, n) ELSE {}]
        /\ req = [s \in Slots |-> Idle]
        /\ nreq = 0
        /\ hist = [gone |-> {}, stale |-> {}]
        /\ fn = Run(index, b, dry_run, recreate_index)

\* if recreate_index and not dry_run: the index is deleted and created
\* empty; an exception there returns the stats at once.
RecreateIndex ==
    /\ fn.call = "reindex_table" /\ fn.pc = "recreate"
    /\ IF fn.recreate_index /\ ~fn.dry_run
       THEN \/ /\ idx' = [idx EXCEPT ![fn.target] = {}]
               /\ fn' = [fn EXCEPT !.pc = "count"]
            \/ /\ fn' = [fn EXCEPT !.pc = "done"]
               /\ UNCHANGED idx
       ELSE /\ fn' = [fn EXCEPT !.pc = "count"]
            /\ UNCHANGED idx
    /\ UNCHANGED <<rel, req, nreq, hist>>

\* total_count = query.count(); return when it raises or is 0.
CountRecords ==
    /\ fn.call = "reindex_table" /\ fn.pc = "count"
    /\ LET total == Cardinality(rel[fn.target])
       IN  \/ fn' = [fn EXCEPT !.total_count = total,
                               !.stats.total_records = total,
                               !.pc = IF total = 0 THEN "done" ELSE "loop"]
           \/ fn' = [fn EXCEPT !.pc = "done"]
    /\ UNCHANGED <<rel, idx, req, nreq, hist>>

\* query.offset(offset).limit(batch_size).all(): the query has no ORDER
\* BY, so the rows of a page are any rows of the table, as many as remain
\* from the offset up to batch_size.
Page(table, offset, batch_size) ==
    LET left == Cardinality(table) - offset
        size == IF left < 0 THEN 0
                ELSE IF left < batch_size THEN left ELSE batch_size
    IN  {S \in SUBSET table : Cardinality(S) = size}

AdvanceByOne(offset, batch_size) == offset + 1

\* offset += batch_size
NextOffset(offset, batch_size) == offset + batch_size

\* One iteration of `while offset < total_count`.
Batch ==
    /\ fn.call = "reindex_table" /\ fn.pc = "loop"
    /\ fn.offset < fn.total_count
    /\ LET run == [fn EXCEPT !.batch_num = @ + 1]
           next == [run EXCEPT
                       !.offset = NextOffset(@, fn.batch_size)]
       IN  \/ \* the page query raises: outer except, next batch
              /\ fn' = next
              /\ UNCHANGED idx
           \/ \E records \in Page(rel[fn.target], fn.offset, fn.batch_size) :
              LET actions == generate_bulk_actions(records, fn.target)
                  len == Cardinality(actions)
              IN  IF records = {}
                  THEN \* if not records: break
                       /\ fn' = [run EXCEPT !.pc = "refresh"]
                       /\ UNCHANGED idx
                  ELSE IF fn.dry_run
                  THEN /\ fn' = [next EXCEPT !.stats.indexed_records = @ + len]
                       /\ UNCHANGED idx
                  ELSE \/ \* bulk returns (success, failed)
                          \E written \in SUBSET actions :
                            /\ idx' = [idx EXCEPT ![fn.target] =
                                          BulkWrite(@, written)]
                            /\ fn' = [next EXCEPT
                                 !.stats.indexed_records =
                                     @ + Cardinality(written),
                                 !.stats.failed_records =
                                     @ + (len - Cardinality(written))]
                       \/ \* bulk raises: the whole batch counts as failed
                          /\ fn' = [next EXCEPT
                                       !.stats.failed_records = @ + len]
                          /\ UNCHANGED idx
    /\ UNCHANGED <<rel, req, nreq, hist>>

\* The loop condition is false: on to the refresh.
LoopEnd ==
    /\ fn.call = "reindex_table" /\ fn.pc = "loop"
    /\ ~(fn.offset < fn.total_count)
    /\ fn' = [fn EXCEPT !.pc = "refresh"]
    /\ UNCHANGED <<rel, idx, req, nreq, hist>>

\* indices.refresh when something was indexed (a failure is only printed),
\* then return stats.
RefreshIndex ==
    /\ fn.call = "reindex_table" /\ fn.pc = "refresh"
    /\ fn' = [fn EXCEPT !.pc = "done"]
    /\ UNCHANGED <<rel, idx, req, nreq, hist>>

ReindexNext == RecreateIndex \/ CountRecords \/ Batch \/ LoopEnd \/ RefreshIndex

\* The tool is a script that runs its loop to the end without waiting for
\* anything but the calls it makes.
ReindexSpec == ReindexInit /\ [][ReindexNext]_vars /\ WF_vars(ReindexNext)

\* ================================================================= claims

Done(s) == req[s].pc = "done"
Ok(s) == Done(s) /\ req[s].status = 200
Calls(s) == {req[s].log[i] : i \in 1..Len(req[s].log)}
IsPrefix(a, b) == Len(a) <= Len(b) /\ \A i \in 1..Len(a) : a[i] = b[i]

\* The projection of a row: the row without its id field.
Projection(row) == [c \in DOMAIN row \ {"id"} |-> row[c]]

\* The columns a body supplies with a value (not a null), the id apart.
SuppliedColumns(s) ==
    {f \in DOMAIN req[s].body \cap SQLModel(req[s].index) :
        req[s].body[f] # None} \ {"id"}

\* C1: once a create has returned success, the table of its kind holds a
\* row whose id is the returned document id, and the index of the same
\* kind holds a document under that id.
C1_CreateSuccessInBothStores ==
    \A s \in Slots :
        (req[s].op = "add" /\ Ok(s)) =>
            /\ HasRow(req[s].index, req[s].opensearch_id)
            /\ HasDoc(req[s].index, req[s].opensearch_id)

C1_Witness ==
    \E s \in Slots :
        /\ req[s].op = "add" /\ Ok(s)
        /\ req[s].index = INDEX_DEMAND
        /\ req[s].opensearch_id \in UuidPool

\* C2 (as claimed): a create whose id had no row before the call and that
\* reports failure leaves no row with that id.
C2_CreateFailureLeavesNoRow ==
    \A s \in Slots :
        (req[s].op = "add" /\ Done(s) /\ req[s].status = 500 /\ ~req[s].had)
            => ~HasRow(req[s].index, req[s].id)

\* C3 (as claimed): when the cross-match search fails after the insert and
\* the index upsert succeeded, the create returns success with an empty
\* match list, and the row and the document remain.
C3_CrossMatchFailureIsSuccess ==
    \A s \in Slots :
        (req[s].op = "add" /\ Done(s) /\ req[s].error = "os_search") =>
            /\ req[s].status = 200
            /\ req[s].matches = {}
            /\ HasRow(req[s].index, req[s].id)
            /\ HasDoc(req[s].index, req[s].id)

\* C4: a create whose relational insert fails returns an error, has
\* issued no index write and no cross-match search, and the step that
\* fails leaves both tables and both indexes as they were.
InsertFailed(s) ==
    req[s].op = "add" /\ Done(s) /\ req[s].error = "db_commit"

C4_InsertFailureTouchesNothing ==
    [][\A s \in Slots :
          (InsertFailed(s)' /\ req'[s] # req[s]) =>
              /\ req'[s].status = 500
              /\ req'[s].log = <<"db_commit">>
              /\ rel' = rel
              /\ idx' = idx]_vars

C4_Witness ==
    \E s \in Slots :
        /\ InsertFailed(s) /\ req[s].had
        /\ HasRow(req[s].index, req[s].id)
        /\ ~HasDoc(req[s].index, req[s].id)

\* C5: within one request the store calls are issued in the handler's
\* order, each after the previous one returned: commit, index write,
\* cross-match search for a create; commit, index write for an update.
CallOrder(op) ==
    CASE op = "add"    -> <<"db_commit", "os_index", "os_search">>
      [] op = "update" -> <<"db_commit", "os_index">>
      [] op = "delete" -> <<"db_commit", "os_delete">>
      [] op \in {"get_all", "search"} -> <<"os_search">>
      [] OTHER         -> <<>>

C5_CallsInOrder ==
    \A s \in Slots :
        /\ IsPrefix(req[s].log, CallOrder(req[s].op))
        /\ "os_index" \in Calls(s) => HasRow(req[s].index, req[s].id)

C5_Witness ==
    \E s \in Slots :
        req[s].op = "add" /\ req[s].log = CallOrder("add") /\ Ok(s)

\* C6: right after a successful create or update the document stored
\* under the record's id equals the projection of the committed row.
C6_DocumentIsProjection ==
    \A s \in Slots :
        (req[s].op \in {"add", "update"} /\ Ok(s)) =>
            /\ HasRow(req[s].index, req[s].id)
            /\ HasDoc(req[s].index, req[s].id)
            /\ DocById(req[s].index, req[s].id)._source =
                   Projection(RowById(req[s].index, req[s].id))
            /\ Cardinality({d \in idx[req[s].index] : d._id = req[s].id}) = 1

C6_Witness ==
    \E s \in Slots :
        /\ req[s].op = "update" /\ Ok(s)
        /\ RowById(req[s].index, req[s].id) # req[s].orig

\* C7 (as claimed): after an update, every column the body does not
\* supply holds the value it had before the update.
C7_AbsentFieldsKept ==
    \A s \in Slots :
        (req[s].op = "update" /\ Ok(s)) =>
            \A c \in SQLModel(req[s].index) \ DOMAIN req[s].body :
                RowById(req[s].index, req[s].id)[c] = req[s].orig[c]

\* C8: after the relational commit of an update, every column the body
\* supplies with false, 0, an empty string or an empty list holds that
\* value.
SuppliedFalsy(s) ==
    {f \in SuppliedColumns(s) : req[s].body[f] = FalsyValue(f)}

UpdateCommitted(s) ==
    /\ req[s].op = "update"
    /\ "db_commit" \in Calls(s)
    /\ req[s].error # "db_commit"

C8_FalsyValuesOverwrite ==
    \A s \in Slots :
        UpdateCommitted(s) =>
            \A f \in SuppliedFalsy(s) :
                RowById(req[s].index, req[s].id)[f] = FalsyValue(f)

C8_Witness ==
    \E s \in Slots :
        /\ UpdateCommitted(s) /\ Ok(s)
        /\ \E f \in SuppliedFalsy(s) :
              /\ req[s].orig[f] \notin {None, FalsyValue(f)}
              /\ RowById(req[s].index, req[s].id)[f] = FalsyValue(f)

\* C9: an update whose id has no row answers 404 without issuing a store
\* call, and the step leaves both tables and both indexes as they were,
\* also when the index holds a document under that id.
C9_UpdateOfAbsentRowIs404 ==
    /\ [](\A s \in Slots :
            (req[s].op = "update" /\ ~req[s].had) =>
                Done(s) /\ req[s].status = 404 /\ req[s].log = <<>>)
    /\ [][\A s \in Slots :
            (req'[s].op = "update" /\ req'[s].status = 404
                /\ req'[s] # req[s]) => (rel' = rel /\ idx' = idx)]_vars

C9_Witness ==
    \E s \in Slots :
        /\ req[s].op = "update" /\ req[s].status = 404
        /\ HasDoc(req[s].index, req[s].id)
        /\ ~HasRow(req[s].index, req[s].id)

\* C10: when the index upsert of an update fails after the commit, the
\* request answers with an error and the row holds the supplied values.
C10_UpdateKeptOnIndexFailure ==
    \A s \in Slots :
        (req[s].op = "update" /\ Done(s) /\ req[s].error = "os_index") =>
            /\ req[s].status = 500
            /\ HasRow(req[s].index, req[s].id)
            /\ \A f \in SuppliedColumns(s) :
                  RowById(req[s].index, req[s].id)[f] = req[s].body[f]

C10_Witness ==
    \E s \in Slots :
        /\ req[s].op = "update" /\ Done(s) /\ req[s].error = "os_index"
        /\ RowById(req[s].index, req[s].id) # req[s].orig
        /\ HasDoc(req[s].index, req[s].id)
        /\ DocById(req[s].index, req[s].id)._source =
               Projection(req[s].orig)

\* C11: a delete whose id has no row of its kind answers 404 without
\* issuing an index delete or any other store call, and the step leaves
\* both tables and both indexes as they were.
C11_DeleteOfAbsentRowIs404 ==
    /\ [](\A s \in Slots :
            (req[s].op = "delete" /\ ~req[s].had) =>
                Done(s) /\ req[s].status = 404 /\ req[s].log = <<>>)
    /\ [][\A s \in Slots :
            (req'[s].op = "delete" /\ req'[s].status = 404
                /\ req'[s] # req[s]) => (rel' = rel /\ idx' = idx)]_vars

C11_Witness ==
    \E s \in Slots :
        /\ req[s].op = "delete" /\ req[s].status = 404
        /\ "os_delete" \notin Calls(s)
        /\ HasDoc(req[s].index, req[s].id)
        /\ ~HasRow(req[s].index, req[s].id)

\* C12: a delete that returned success leaves neither a row nor a document
\* under its id; they stay absent until a create of that id commits, and
\* a later delete of the id answers 404 meanwhile.
C12_DeleteRemovesBoth ==
    /\ \A s \in Slots :
          req[s].op = "delete" =>
              /\ Ok(s) => <<req[s].index, req[s].id>> \in hist.gone
              /\ (<<req[s].index, req[s].id>> \in hist.gone /\ ~Ok(s)) =>
                     Done(s) /\ req[s].status = 404
    /\ \A g \in hist.gone : ~HasRow(g[1], g[2]) /\ ~HasDoc(g[1], g[2])

C12_Witness ==
    \E s \in Slots :
        /\ req[s].op = "delete" /\ req[s].status = 404
        /\ <<req[s].index, req[s].id>> \in hist.gone

\* C13: when the index delete fails after the relational delete
\* committed, the request answers with an error and the row stays deleted;
\* an index delete that finds no document (status 404) is no failure: the
\* request answers success.
C13_IndexDeleteFailureReported ==
    \A s \in Slots :
        (req[s].op = "delete" /\ Done(s)) =>
            /\ req[s].error = "os_delete" =>
                  /\ req[s].status = 500
                  /\ ~HasRow(req[s].index, req[s].id)
            /\ req[s].os_status = 404 =>
                  /\ req[s].status = 200
                  /\ req[s].opensearch_response = "not_found"
                  /\ ~HasRow(req[s].index, req[s].id)

C13_Witness ==
    \E s \in Slots :
        /\ req[s].op = "delete" /\ Done(s) /\ req[s].error = "os_delete"
        /\ req[s].had /\ req[s].log = CallOrder("delete")
        /\ ~HasRow(req[s].index, req[s].id)
        /\ HasDoc(req[s].index, req[s].id)

\* The ids under which a kind holds a row or a document.
StoredIds(k) == {r["id"] : r \in rel[k]} \cup {d._id : d \in idx[k]}
RowsWithId(k, i) == {r \in rel[k] : r["id"] = i}
DocsWithId(k, i) == {d \in idx[k] : d._id = i}
Quiescent == \A s \in Slots : Free(s)

\* C14 (as claimed): with no request in flight, each id has at most one
\* document per kind, and an id that has a document has exactly one row.
C14_NoDocumentWithoutRow ==
    Quiescent =>
        \A k \in Indexes : \A i \in StoredIds(k) :
            /\ Cardinality(DocsWithId(k, i)) <= 1
            /\ DocsWithId(k, i) # {} => Cardinality(RowsWithId(k, i)) = 1

\* C14 (amended): with no request in flight, each id has at most one
\* document and at most one row per kind, and an id has a document
\* without a row only after a delete of it that committed and then failed
\* at the index.
C14_DocumentWithoutRowOnlyWhenStale ==
    Quiescent =>
        \A k \in Indexes : \A i \in StoredIds(k) :
            /\ Cardinality(DocsWithId(k, i)) <= 1
            /\ Cardinality(RowsWithId(k, i)) <= 1
            /\ (DocsWithId(k, i) # {} /\ RowsWithId(k, i) = {}) =>
                   <<k, i>> \in hist.stale

C14_Witness ==
    /\ Quiescent
    /\ \E k \in Indexes : \E i, j \in StoredIds(k) :
          /\ DocsWithId(k, i) # {} /\ RowsWithId(k, i) # {}
          /\ DocsWithId(k, j) # {} /\ RowsWithId(k, j) = {}

\* ------------------------------------------------ claims on query builders

CrossBuilt(target_index) ==
    fn.call = "create_cross_search_query" /\ fn.target = target_index
SearchBuilt ==
    fn.call \in {"search_supply_properties", "search_demand_requests"}

\* The positions in a clause list of the clauses of kind t on field f.
ClausesOn(list, t, f) ==
    {i \in DOMAIN list : list[i].t = t /\ list[i].f = f}
HasRange(list, f, op, x) ==
    \E i \in ClausesOn(list, "range", f) : list[i].op = op /\ list[i].v = x

\* C15 (as claimed): the query built from a supply against the demand
\* index holds, for every price p the supply carries (0 included), the
\* filters price_min <= p and price_max >= p, and for every bhk b the
\* filters bhk_min <= b and bhk_max >= b.
C15_SupplyPointFiltersEmitted ==
    CrossBuilt(INDEX_DEMAND) =>
        \A f \in {"price", "bhk"} :
            fn.source[f] # None =>
                /\ HasRange(fn.query.filter, f \o "_min", "lte", fn.source[f][1])
                /\ HasRange(fn.query.filter, f \o "_max", "gte", fn.source[f][1])

\* C16 (as claimed): the query built from a demand against the supply
\* index holds the filter price >= price_min exactly when price_min is
\* present (0 included) and price <= price_max exactly when price_max is
\* present; the same for bhk.
DemandBounds ==
    {<<"price_min", "price", "gte">>, <<"price_max", "price", "lte">>,
     <<"bhk_min", "bhk", "gte">>, <<"bhk_max", "bhk", "lte">>}

C16_DemandBoundFiltersEmitted ==
    CrossBuilt(INDEX_SUPPLY) =>
        \A b \in DemandBounds :
            LET on == {i \in ClausesOn(fn.query.filter, "range", b[2]) :
                          fn.query.filter[i].op = b[3]}
            IN  IF fn.source[b[1]] = None THEN on = {}
                ELSE /\ on # {}
                     /\ \A i \in on :
                           fn.query.filter[i].v = fn.source[b[1]][1]

\* Whether the point value S[f] lies in the range [D[lo], D[hi]], all
\* three present.
Present(S, D, f) ==
    S[f] # None /\ D[f \o "_min"] # None /\ D[f \o "_max"] # None
Inside(S, D, f) ==
    /\ Present(S, D, f)
    /\ D[f \o "_min"][1] <= S[f][1] /\ S[f][1] <= D[f \o "_max"][1]

\* C17 (as claimed): for an indexed supply S and an indexed demand D that
\* agree on locality and types, each is among the hits of the other's
\* cross-match query when S's price and bhk lie inside D's ranges, and
\* neither is when S's price lies outside D's price range.
C17_CrossMatchSymmetricRangeExact ==
    (fn.call = "cross_match" /\ Agree(fn.source, fn.other)) =>
        /\ (Inside(fn.source, fn.other, "price")
              /\ Inside(fn.source, fn.other, "bhk")) =>
                  "d" \in fn.hits /\ "s" \in fn.back
        /\ (Present(fn.source, fn.other, "price")
              /\ ~Inside(fn.source, fn.other, "price")) =>
                  "d" \notin fn.hits /\ "s" \notin fn.back

\* A supply document whose locality and types equal those of the demand
\* model m and whose price and bhk lie inside m's ranges.
Compatible(doc, m) ==
    /\ \A f \in {"locality", "property_type", "listing_type"} :
          DocValue(doc, f) = m[f]
    /\ \A f \in {"price", "bhk"} :
          /\ DocValue(doc, f) # None
          /\ m[f \o "_min"] # None /\ m[f \o "_max"] # None
          /\ m[f \o "_min"][1] <= doc[f][1] /\ doc[f][1] <= m[f \o "_max"][1]

CompatibleSupplies(m) ==
    {d \in idx[INDEX_SUPPLY] :
        HasRow(INDEX_SUPPLY, d._id) /\ Compatible(d._source, m)}

SearchRanges(call) ==
    IF call = "search_supply_properties"
    THEN {<<"min_sqft", "max_sqft", "area_sqft">>,
          <<"min_price", "max_price", "price">>}
    ELSE {<<"bhk_min", "bhk_max", "bhk_min">>,
          <<"min_sqft", "max_sqft", "area_sqft_min">>,
          <<"min_price", "max_price", "price_min">>}

SuppliedBounds(lo, hi) ==
    (IF lo # None THEN {"gte"} ELSE {}) \cup (IF hi # None THEN {"lte"} ELSE {})

\* C19 (as claimed): for each range of a search endpoint the query holds
\* no range clause on the field when neither bound is supplied, and else
\* one clause whose bounds are gte for a supplied minimum and lte for a
\* supplied maximum, whatever the values (0 included).
C19_RangeClauseBounds ==
    SearchBuilt =>
        \A r \in SearchRanges(fn.call) :
            LET lo == fn.source[r[1]]
                hi == fn.source[r[2]]
                on == ClausesOn(fn.query.filter, "range", r[3])
            IN  IF SuppliedBounds(lo, hi) = {} THEN on = {}
                ELSE /\ Cardinality(on) = 1
                     /\ \A i \in on :
                           LET body == fn.query.filter[i].v
                           IN  /\ DOMAIN body = SuppliedBounds(lo, hi)
                               /\ lo # None => body["gte"] = lo[1]
                               /\ hi # None => body["lte"] = hi[1]

\* The categorical parameters of a search endpoint and the field each
\* filters on.
Categorical(call) ==
    {<<"property_type", "property_type">>, <<"listing_type", "listing_type">>,
     <<"furnishing_status", "furnishing_status">>,
     <<"facing_direction", "facing_direction">>,
     <<"has_lift", "lift_available">>}
    \cup (IF call = "search_supply_properties" THEN {<<"bhk", "bhk">>} ELSE {})

\* C20 (as claimed): a search call with no parameter builds a query with
\* empty must, should and filter lists, and each categorical parameter
\* yields one term filter on its field exactly when it is supplied,
\* whatever its value (bhk = 0 and has_lift = false included).
C20_OneClausePerParameter ==
    SearchBuilt =>
        /\ (\A n \in DOMAIN fn.source : fn.source[n] = None) =>
              /\ fn.query.must = <<>>
              /\ fn.query.should = <<>>
              /\ fn.query.filter = <<>>
        /\ \A c \in Categorical(fn.call) :
              LET on == ClausesOn(fn.query.filter, "term", c[2])
              IN  IF fn.source[c[1]] = None THEN on = {}
                  ELSE /\ Cardinality(on) = 1
                       /\ \A i \in on :
                             fn.query.filter[i].v = fn.source[c[1]][1]


\* C21 (as claimed): adding keywords or title_keywords to a search call
\* removes no document from the set the query matches, whatever the other
\* parameters, none at all included.
C21_KeywordsNeverExclude ==
    fn.call = "keyword_search" => fn.back \subseteq fn.hits

\* C22: the cross-match query holds the fuzzy locality clause in must
\* exactly when the source has a (non-empty) locality, a term filter on
\* property_type, respectively listing_type, exactly when the source has
\* that field, and no other clause on these three fields.
CoreClauses(list, f) == {i \in DOMAIN list : list[i].f = f}
C22_CoreClausesIffPresent ==
    fn.call = "create_cross_search_query" =>
        LET m == fn.source
            q == fn.query
        IN  /\ q.must = IF TruthyStr(m["locality"])
                        THEN <<Match("locality", m["locality"][1])>> ELSE <<>>
            /\ q.should = <<>>
            /\ CoreClauses(q.filter, "locality") = {}
            /\ \A f \in {"property_type", "listing_type"} :
                  IF m[f] = None THEN CoreClauses(q.filter, f) = {}
                  ELSE /\ Cardinality(CoreClauses(q.filter, f)) = 1
                       /\ \A i \in CoreClauses(q.filter, f) :
                             q.filter[i] = Term(f, m[f][1])

C22_Witness ==
    /\ fn.call = "create_cross_search_query"
    /\ fn.source["locality"] = Some("koramangala")
    /\ fn.source["property_type"] = None
    /\ fn.source["listing_type"] = Some("RENT")
    /\ Len(fn.query.must) = 1
    /\ CoreClauses(fn.query.filter, "listing_type") # {}


\* The property_id of the body of the request in slot s, as parsed.
BodyId(r) == ParseBody(r.index, r.body)["property_id"]

\* C23: a create that returns success has stored and indexed the record
\* under the id it returns; that id is the body's property_id when it is
\* a non-empty string, and else a generated id that no row and no document
\* of either kind carried when the request arrived.
C23_CreateUnderSuppliedOrFreshId ==
    /\ [](\A s \in Slots :
            (req[s].op = "add" /\ Ok(s)) =>
                /\ req[s].opensearch_id = req[s].id
                /\ HasRow(req[s].index, req[s].id)
                /\ HasDoc(req[s].index, req[s].id)
                /\ IF TruthyStr(BodyId(req[s]))
                   THEN req[s].id = BodyId(req[s])[1]
                   ELSE req[s].id # "" /\ ~req[s].had)
    /\ [][\A s \in Slots :
            (Free(s) /\ req'[s] # req[s] /\ req'[s].op = "add"
                /\ ~TruthyStr(BodyId(req'[s]))) =>
                    \A k \in Indexes : req'[s].id \notin StoredIds(k)]_vars

C23_Witness ==
    \E s \in Slots :
        /\ req[s].op = "add" /\ Ok(s)
        /\ BodyId(req[s]) = Some("")
        /\ req[s].id \in UuidPool
        /\ HasRow(req[s].index, "a")
        /\ DocById(req[s].index, req[s].id)._id = req[s].opensearch_id

\* ------------------------------------------------------------------- C24
\* C24: an update whose payload carries the identity field is rejected with
\* an error and issues no store call.  The handlers skip the keys id and
\* property_id in the setattr loop and go on to commit and index, so the
\* statement is violated by any such update of an existing row.
HasIdentity(r) ==
    /\ "property_id" \in DOMAIN r.body
    /\ r.body["property_id"] # None

C24_UpdateWithIdentityRejected ==
    \A s \in Slots :
        (req[s].op = "update" /\ Done(s) /\ HasIdentity(req[s])) =>
            /\ req[s].status # 200
            /\ req[s].log = <<>>

\* ------------------------------------------------------------------- C25
\* C25: a create whose index upsert failed and whose row was left in the
\* table ends with an error kind that differs from the one of a create
\* that left nothing behind.  The except block raises the same
\* HTTPException(500) prefix for every failure, and no compensating
\* removal exists (C2), so the statement is violated.
Orphaned(s) ==
    /\ req[s].op = "add"
    /\ Done(s)
    /\ req[s].error = "os_index"
    /\ HasRow(req[s].index, req[s].id)
    /\ ~HasDoc(req[s].index, req[s].id)

CleanFailure(r) == ErrorBody([r EXCEPT !.error = "db_commit"])

C25_OrphanHasDistinctErrorKind ==
    \A s \in Slots :
        Orphaned(s) =>
            ErrorBody(req[s]).detail[1] # CleanFailure(req[s]).detail[1]

\* ------------------------------------------------------------------- C26
\* C26: every create, update or delete that ends in an HTTP error returns
\* a body with the operation, the record id and the state of each side,
\* and a create that left its row behind is answered differently from one
\* that left nothing.  The body has the single key detail, and a failed
\* refresh (row stored) yields the body of a failed commit (nothing
\* stored), so the statement is violated.
Failing(s) ==
    /\ req[s].op \in {"add", "update", "delete"}
    /\ Done(s)
    /\ Outcome(req[s].status, req[s].error) = "http_exception"

C26_StructuredError ==
    \A s \in Slots :
        Failing(s) =>
            /\ {"operation", "id", "relational", "index"}
                   \subseteq DOMAIN ErrorBody(req[s])
            /\ (req[s].op = "add" /\ HasRow(req[s].index, req[s].id)
                    /\ ~req[s].had) =>
                        ErrorBody(req[s]) # CleanFailure(req[s])

\* ------------------------------------------------------------------- C27
\* C27: a request holds an open session that was never closed while its
\* handler runs, and once the request has ended -- by a return, by an
\* HTTPException or by any other exception -- its session is closed and
\* was closed exactly once.
SessionOps == {"add", "update", "delete", "get"}

C27_SessionClosedExactlyOnce ==
    \A s \in Slots :
        IF req[s].op \in SessionOps
        THEN IF Done(s)
             THEN req[s].db.state = "closed" /\ req[s].db.closes = 1
             ELSE req[s].db.state = "open" /\ req[s].db.closes = 0
        ELSE req[s].db = NoSession

C27_Witness ==
    \E s \in Slots :
        /\ Done(s)
        /\ Outcome(req[s].status, req[s].error) = "exception"
        /\ req[s].db.closes = 1

\* ------------------------------------------------------------------- C28
\* C28: a GET by id issues no store call and answers 200 exactly when the
\* table has a row with that id, with every column of that row that the
\* response model has, whatever the index holds; it answers 404 exactly
\* when the table has no such row, even when the index has a document
\* with that id.
Shared(index) == (SQLModel(index) \cap RequestModel(index)) \ {"property_id"}

C28_GetAnswersFromTable ==
    \A s \in Slots :
        req[s].op = "get" =>
            /\ Done(s)
            /\ req[s].log = <<>>
            /\ req[s].status = IF HasRow(req[s].index, req[s].id)
                               THEN 200 ELSE 404
            /\ req[s].status = 200 =>
                   \A c \in Shared(req[s].index) :
                       req[s].model[c] = RowById(req[s].index, req[s].id)[c]

C28_Witness ==
    \E s \in Slots :
        /\ req[s].op = "get"
        /\ req[s].status = 200
        /\ HasDoc(req[s].index, req[s].id)
        /\ \E c \in Shared(req[s].index) :
               /\ c \in DOMAIN DocById(req[s].index, req[s].id)._source
               /\ DocById(req[s].index, req[s].id)._source[c]
                      # req[s].model[c]

\* ------------------------------------------------------------------- C30
\* C30: an update or delete whose commit failed ends with status 500, its
\* only store call is that commit (no index write, no index delete), and
\* the row is still in the table with the values read before the request.
C30_FailedCommitLeavesRowAndIndex ==
    \A s \in Slots :
        (req[s].op \in {"update", "delete"} /\ Done(s)
            /\ req[s].error = "db_commit") =>
                /\ req[s].status = 500
                /\ req[s].log = <<"db_commit">>
                /\ HasRow(req[s].index, req[s].id)
                /\ RowById(req[s].index, req[s].id) = req[s].orig

C30_Witness ==
    \E s \in Slots :
        /\ req[s].op = "delete"
        /\ Done(s)
        /\ req[s].error = "db_commit"
        /\ HasDoc(req[s].index, req[s].id)
        /\ RowById(req[s].index, req[s].id) = req[s].orig

\* ------------------------------------------------------------------- C29
\* C29: when two updates of one id, served at once, have both returned
\* success, the index document is the one written by the last index upsert
\* of the two; whenever it differs from the projection of the final row,
\* it is the projection of the row as the other request's earlier commit
\* left it (read back by that request's refresh), and the final row is the
\* one the later commit left.  The witness is that state, which no lock in
\* the handlers rules out.
BothUpdated(s, t) ==
    /\ s # t
    /\ req[s].op = "update" /\ req[t].op = "update"
    /\ Ok(s) /\ Ok(t)
    /\ req[s].index = req[t].index
    /\ req[s].id = req[t].id

StaleAfter(s, t) ==
    /\ DocById(req[s].index, req[s].id)._source
           = IndexDoc(req[s].index, req[s].model)
    /\ RowById(req[s].index, req[s].id) = req[t].model
    /\ req[s].model # req[t].model

C29_LastIndexUpsertWins ==
    \A s, t \in Slots :
        BothUpdated(s, t) =>
            /\ HasDoc(req[s].index, req[s].id)
            /\ HasRow(req[s].index, req[s].id)
            /\ \/ DocById(req[s].index, req[s].id)._source
                      = IndexDoc(req[s].index,
                                 RowById(req[s].index, req[s].id))
               \/ StaleAfter(s, t)
               \/ StaleAfter(t, s)

C29_Witness ==
    \E s, t \in Slots :
        /\ BothUpdated(s, t)
        /\ StaleAfter(s, t)
        /\ DocById(req[s].index, req[s].id)._source
               # IndexDoc(req[s].index, RowById(req[s].index, req[s].id))

\* ------------------------------------------------------------------- C31
\* C31: the cross-match step of a create and every listing or search
\* request leave both tables and both indexes as they were; a step of a
\* create changes a table only at its commit, by inserting the row of its
\* own id, and an index only at its index call, by writing the document of
\* its own id and no other.
RowsBut(table, i) == {row \in table : row["id"] # i}
DocsBut(docs, i) == {d \in docs : d._id # i}
ReadOps == {"get_all", "search"}

C31_ReadsChangeNothing ==
    [][\A s \in Slots :
          /\ (req[s].op = "add" /\ req[s].pc = "search") =>
                 rel' = rel /\ idx' = idx
          /\ (Free(s) /\ nreq' # nreq /\ req'[s].op \in ReadOps) =>
                 rel' = rel /\ idx' = idx
          /\ (req[s].op = "add" /\ ~Done(s)) =>
                 \A k \in Indexes :
                    /\ rel'[k] # rel[k] =>
                          /\ k = req[s].index
                          /\ req[s].pc = "commit"
                          /\ ~HasRow(k, req[s].id)
                          /\ RowsBut(rel'[k], req[s].id) = rel[k]
                    /\ idx'[k] # idx[k] =>
                          /\ k = req[s].index
                          /\ req[s].pc = "index"
                          /\ DocsBut(idx'[k], req[s].id)
                                = DocsBut(idx[k], req[s].id)]_vars

C31_Witness ==
    \E s \in Slots :
        /\ req[s].op = "add"
        /\ Ok(s)
        /\ req[s].matches # {}
        /\ \E d \in idx[req[s].index] : d._id # req[s].id

\* ------------------------------------------------------------------- C32
\* C32: the match list of a create has at most 10 entries, every entry is
\* a document of the opposite index, and none is a document of the index
\* of the created kind.
DocIds(index) == {d._id : d \in idx[index]}

C32_AtMostTenOfOppositeKind ==
    fn.call = "matches" =>
        /\ Cardinality(fn.hits) <= 10
        /\ fn.hits \subseteq DocIds(fn.target)
        /\ fn.hits \cap DocIds(Opposite(fn.target)) = {}

C32_Witness ==
    /\ fn.call = "matches"
    /\ Cardinality(DocIds(fn.target)) > 10
    /\ Cardinality(fn.hits) = 10
    /\ DocIds(Opposite(fn.target)) # {}

\* ------------------------------------------------------------------- C33
\* C33: every document the bulk reindexing tool has written for a row is
\* the document the request path writes for that row: the id of the row as
\* document id, and as body the projection prepare_and_index derives from
\* it.  The tool keeps the renamed id (property_id, request_id) in the
\* body and leaves the NULL columns out, so a reindex of an index that was
\* in sync changes its documents and the statement is violated.
C33_ReindexWritesRequestPathDocuments ==
    fn.call = "reindex_table" =>
        \A d \in idx[fn.target] :
            HasRow(fn.target, d._id) =>
                {d} = prepare_and_index({}, RowById(fn.target, d._id),
                                        fn.target)

\* ------------------------------------------------------------------- C40
\* C40: a run of reindex_table reaches its return for every batch size,
\* table size and pattern of failing batches; each iteration, failed or
\* not, moves the offset on by batch_size, so the offset is batch_size
\* times the number of iterations, the iterations never exceed
\* ceil(total_count / batch_size), and on return the indexed and the
\* failed records together are no more than the total.
Ceil(a, b) == (a + b - 1) \div b

C40_ReindexTerminates ==
    /\ <>(fn.pc = "done")
    /\ [](/\ fn.batch_size >= 1
          /\ fn.offset = fn.batch_num * fn.batch_size
          /\ fn.batch_num <= Ceil(fn.total_count, fn.batch_size)
          /\ fn.pc = "done" =>
                fn.stats.indexed_records + fn.stats.failed_records
                    <= fn.stats.total_records)
    /\ [][fn'.batch_num # fn.batch_num =>
             /\ fn'.batch_num = fn.batch_num + 1
             /\ fn'.offset = fn.offset + fn.batch_size]_vars

C40_Witness ==
    /\ fn.call = "reindex_table"
    /\ fn.pc = "done"
    /\ fn.batch_num > 1
    /\ fn.batch_num = Ceil(fn.total_count, fn.batch_size)
    /\ fn.stats.failed_records > 0
    /\ fn.stats.indexed_records > 0
    /\ fn.stats.indexed_records + fn.stats.failed_records
           < fn.stats.total_records

\* ------------------------------------------------------------------- C34
\* C34: no step of an update, whatever its payload, changes a row or a
\* document of another id than the one in the path, adds an id to the
\* table, or adds to the index an id other than the path id; a successful
\* update returns the path id as document id and leaves a row and a
\* document under it.
RowIds(table) == {row["id"] : row \in table}

C34_UpdateKeepsIdentity ==
    /\ [](\A s \in Slots :
             (req[s].op = "update" /\ Ok(s)) =>
                 /\ req[s].opensearch_id = req[s].id
                 /\ HasRow(req[s].index, req[s].id)
                 /\ HasDoc(req[s].index, req[s].id))
    /\ [][\A s \in Slots :
             (req[s].op = "update" /\ ~Done(s)) =>
                 \A k \in Indexes :
                    /\ RowIds(rel'[k]) = RowIds(rel[k])
                    /\ RowsBut(rel'[k], req[s].id) = RowsBut(rel[k], req[s].id)
                    /\ DocsBut(idx'[k], req[s].id)
                          = DocsBut(idx[k], req[s].id)
                    /\ k # req[s].index => idx'[k] = idx[k]]_vars

C34_Witness ==
    \E s \in Slots :
        /\ req[s].op = "update"
        /\ Ok(s)
        /\ HasIdentity(req[s])
        /\ req[s].body["property_id"] # Some(req[s].id)
        /\ \A k \in Indexes :
              /\ ~HasRow(k, req[s].body["property_id"][1])
              /\ ~HasDoc(k, req[s].body["property_id"][1])

\* ------------------------------------------------------------------- C35
\* C35: a GET by id that finds the record, as it does after a successful
\* create under that id, answers with a record whose property_id is that
\* id and whose other fields have the committed values of the row.  For a
\* demand to_dict names the id request_id, which the response model does
\* not declare, so the answer's property_id is null and the statement is
\* violated.
C35_GetReturnsIdentity ==
    \A s \in Slots :
        (req[s].op = "get" /\ req[s].status = 200) =>
            /\ req[s].model["property_id"] = Some(req[s].id)
            /\ \A c \in Shared(req[s].index) :
                   req[s].model[c] = RowById(req[s].index, req[s].id)[c]

\* ------------------------------------------------------------------- C36
\* C36: a create that met no failing store call has succeeded: none ends
\* with an error before its first store call.  customer_id is a field of
\* both request models and bathrooms of the demand model, and neither is
\* a column of the table, so the constructor of the row raises for a
\* payload that sets one and the statement is violated.
StoreCalls == {"db_commit", "db_refresh", "os_index", "os_search"}

C36_ValidPayloadBuildsRow ==
    \A s \in Slots :
        (req[s].op = "add" /\ Done(s) /\ req[s].error \notin StoreCalls) =>
            /\ req[s].status = 200
            /\ req[s].log # <<>>

\* ------------------------------------------------------------------- C37
\* C37: of two creates of one kind under the same caller-supplied id that
\* are served at once, at most one succeeds; when both have finished and
\* neither row nor document was there before, the one that lost the insert
\* has issued no index write, and a document under the id, if any, is the
\* projection of the row the winner inserted.
SameCreate(s, t) ==
    /\ s # t
    /\ req[s].op = "add" /\ req[t].op = "add"
    /\ Done(s) /\ Done(t)
    /\ req[s].index = req[t].index
    /\ req[s].id = req[t].id
    /\ TruthyStr(BodyId(req[s])) /\ TruthyStr(BodyId(req[t]))
    /\ ~req[s].had /\ ~req[t].had

Inserted(s) == req[s].log # <<>> /\ req[s].error # "db_commit"

C37_OneCreateWins ==
    \A s, t \in Slots :
        SameCreate(s, t) =>
            /\ ~(Ok(s) /\ Ok(t))
            /\ ~(Inserted(s) /\ Inserted(t))
            /\ ~Inserted(t) => req[t].log \in {<<>>, <<"db_commit">>}
            /\ Inserted(s) =>
                  /\ HasRow(req[s].index, req[s].id)
                  /\ RowById(req[s].index, req[s].id)
                        = RowOf(req[s].index, req[s].model)
                  /\ HasDoc(req[s].index, req[s].id) =>
                        DocById(req[s].index, req[s].id)._source
                          = IndexDoc(req[s].index,
                                     RowById(req[s].index, req[s].id))
                  /\ Ok(s) => HasDoc(req[s].index, req[s].id)
            /\ (~Inserted(s) /\ ~Inserted(t)) =>
                  /\ ~HasRow(req[s].index, req[s].id)
                  /\ ~HasDoc(req[s].index, req[s].id)

C37_Witness ==
    \E s, t \in Slots :
        /\ SameCreate(s, t)
        /\ Ok(s)
        /\ req[t].error = "db_commit"
        /\ req[s].body # req[t].body
        /\ RowOf(req[s].index, SqlData(ParseBody(req[t].index, req[t].body),
                                       req[t].id))
              # RowById(req[s].index, req[s].id)

\* ------------------------------------------------------------------- C38
\* C38: when an update and a delete of one existing id, served at once,
\* have both completed with no call failing and the delete has answered
\* success, the index holds no document under that id.  An update that
\* read the row before the delete committed writes its document after the
\* delete removed it, so the statement is violated.
UpdateAndDelete(s, t) ==
    /\ req[s].op = "update" /\ req[t].op = "delete"
    /\ req[s].index = req[t].index
    /\ req[s].id = req[t].id
    /\ req[s].had /\ req[t].had
    /\ Ok(s) /\ Ok(t)

C38_NoDocumentAfterDelete ==
    \A s, t \in Slots :
        UpdateAndDelete(s, t) => ~HasDoc(req[t].index, req[t].id)

\* ------------------------------------------------------------------- C39
\* C39: the demand search keeps a demand exactly when, for each min/max
\* pair of which a parameter was passed, the demand's lower-bound field
\* (bhk_min, area_sqft_min, price_min) has a value that is no less than
\* the minimum passed and no more than the maximum passed; price_max and
\* bhk_max play no part.  A bound of 0 is dropped by the truthiness tests
\* of the builder (C19), so the statement is violated.
InRange(v, lo, hi) ==
    /\ v # None
    /\ lo # None => lo[1] <= v[1]
    /\ hi # None => v[1] <= hi[1]

C39_DemandRangesOnLowerBound ==
    fn.call = "range_search" =>
        ("s" \in fn.hits <=>
            \A r \in SearchRanges("search_demand_requests") :
                \/ fn.source[r[1]] = None /\ fn.source[r[2]] = None
                \/ InRange(DocValue(fn.other, r[3]),
                           fn.source[r[1]], fn.source[r[2]]))

=============================================================================
